---- MODULE Spec2Model ----
(***************************************************************************)
(* Model of src/main.py: the FastAPI backend with the solar-energy         *)
(* estimate (compute_energy) and the e-mail subscription endpoint.         *)
(*                                                                         *)
(* compute_energy works on Python floats, i.e. IEEE 754 binary64 numbers   *)
(* with round-to-nearest-even.  The model computes every float operation   *)
(* of the source bit for bit: the exact result is formed on natural        *)
(* numbers of arbitrary size (sequences of limbs, least significant limb   *)
(* first) and then rounded to 53 significant bits.                         *)
(* One abstraction: zero carries no sign (in Python -0.0 == 0.0, and the   *)
(* source only compares and multiplies its zeros).                         *)
(*                                                                         *)
(* A request is sent (Post), served by the handler of its route, and       *)
(* answered (Reply); the server keeps nothing between requests but the     *)
(* documents create_document stored.  GET /test, which only reports on the *)
(* database connection, is left out.                                       *)
(***************************************************************************)
EXTENDS Integers, Sequences, FiniteSets, TLC

(***************************************************************************)
(* Natural numbers of arbitrary size.                                      *)
(***************************************************************************)
LimbBits == 15
Base == 2^LimbBits

RECURSIVE BNorm(_)
BNorm(a) ==
    IF a = <<>> THEN <<>>
    ELSE IF a[Len(a)] = 0 THEN BNorm(SubSeq(a, 1, Len(a) - 1))
    ELSE a

RECURSIVE Big(_)
Big(n) == IF n = 0 THEN <<>> ELSE <<n % Base>> \o Big(n \div Base)

RECURSIVE BigToInt(_)
BigToInt(a) == IF a = <<>> THEN 0 ELSE a[1] + Base * BigToInt(Tail(a))

Limb(a, i) == IF i <= Len(a) THEN a[i] ELSE 0

RECURSIVE AddFrom(_, _, _, _)
AddFrom(a, b, i, c) ==
    IF i > Len(a) /\ i > Len(b)
    THEN (IF c = 0 THEN <<>> ELSE <<c>>)
    ELSE LET s == Limb(a, i) + Limb(b, i) + c
         IN  <<s % Base>> \o AddFrom(a, b, i + 1, s \div Base)

BAdd(a, b) == BNorm(AddFrom(a, b, 1, 0))

\* a - b for a >= b
RECURSIVE SubFrom(_, _, _, _)
SubFrom(a, b, i, c) ==
    IF i > Len(a) THEN <<>>
    ELSE LET s == a[i] - Limb(b, i) - c
         IN  IF s < 0 THEN <<s + Base>> \o SubFrom(a, b, i + 1, 1)
                      ELSE <<s>> \o SubFrom(a, b, i + 1, 0)

BSub(a, b) == BNorm(SubFrom(a, b, 1, 0))

\* a < b, on normalised numbers
RECURSIVE LessFrom(_, _, _)
LessFrom(a, b, i) ==
    IF i = 0 THEN FALSE
    ELSE IF a[i] # b[i] THEN a[i] < b[i]
    ELSE LessFrom(a, b, i - 1)

BLess(a, b) ==
    IF Len(a) # Len(b) THEN Len(a) < Len(b) ELSE LessFrom(a, b, Len(a))

\* a * c for one limb c
RECURSIVE MulSmallFrom(_, _, _, _)
MulSmallFrom(a, c, i, carry) ==
    IF i > Len(a) THEN (IF carry = 0 THEN <<>> ELSE <<carry>>)
    ELSE LET p == a[i] * c + carry
         IN  <<p % Base>> \o MulSmallFrom(a, c, i + 1, p \div Base)

BMulSmall(a, c) == BNorm(MulSmallFrom(a, c, 1, 0))

RECURSIVE MulFrom(_, _, _)
MulFrom(a, b, j) ==
    IF j > Len(b) THEN <<>>
    ELSE AddFrom(MulSmallFrom(a, b[j], 1, 0), <<0>> \o MulFrom(a, b, j + 1), 1, 0)

BMul(a, b) == BNorm(MulFrom(a, b, 1))

\* quotient and remainder of a by one limb c > 0
DivStep(rest, digit) == [q |-> Append(rest.q, digit), r |-> rest.r]

RECURSIVE DivSmallFrom(_, _, _, _)
DivSmallFrom(a, c, i, r) ==
    IF i = 0 THEN [q |-> <<>>, r |-> r]
    ELSE DivStep(DivSmallFrom(a, c, i - 1, (r * Base + a[i]) % c),
                 (r * Base + a[i]) \div c)

DivNorm(d) == [q |-> BNorm(d.q), r |-> d.r]

BDivSmall(a, c) == DivNorm(DivSmallFrom(a, c, Len(a), 0))

Zeros(n) == [i \in 1..n |-> 0]

\* a * 2^s and floor(a / 2^s)
BShl(a, s) ==
    IF a = <<>> THEN <<>>
    ELSE Zeros(s \div LimbBits) \o BMulSmall(a, 2^(s % LimbBits))

BShr(a, s) ==
    IF s \div LimbBits >= Len(a) THEN <<>>
    ELSE BDivSmall(SubSeq(a, s \div LimbBits + 1, Len(a)), 2^(s % LimbBits)).q

BOdd(a) == a # <<>> /\ a[1] % 2 = 1

\* number of significant bits
BLen(a) ==
    IF a = <<>> THEN 0
    ELSE LimbBits * (Len(a) - 1)
         + (CHOOSE n \in 1..LimbBits : 2^(n - 1) <= a[Len(a)] /\ a[Len(a)] < 2^n)

\* a / 2^d (d >= 1) rounded to the nearest integer, ties to even; sticky says
\* that the exact value lies slightly above a
RoundUp(q, rem, half, sticky) ==
    IF BLess(half, rem) THEN TRUE
    ELSE IF BLess(rem, half) THEN FALSE
    ELSE sticky \/ BOdd(q)

RoundQuotient(a, d, q, sticky) ==
    IF RoundUp(q, BSub(a, BShl(q, d)), BShl(<<1>>, d - 1), sticky)
    THEN BAdd(q, <<1>>)
    ELSE q

RoundShift(a, d, sticky) == RoundQuotient(a, d, BShr(a, d), sticky)

(***************************************************************************)
(* Python float: IEEE 754 binary64.  A finite value is (-1)^neg * m * 2^e  *)
(* with m < 2^53, and either m >= 2^52 or e = EMin (subnormal, zero).      *)
(***************************************************************************)
Prec == 53
EMin == -1074
EMax == 971

Zero == [cls |-> "fin", neg |-> FALSE, m |-> <<>>, e |-> EMin]
Inf(neg) == [cls |-> "inf", neg |-> neg, m |-> <<>>, e |-> 0]
NaN == [cls |-> "nan", neg |-> FALSE, m |-> <<>>, e |-> 0]

IsZero(x) == x.cls = "fin" /\ x.m = <<>>
IsFinite(x) == x.cls = "fin"

\* the float nearest to (-1)^neg * M * 2^E (plus a little, if sticky)
\* the exponent of the last place of an L-bit number times 2^E
LastPlace(E, L) == IF E + L - Prec > EMin THEN E + L - Prec ELSE EMin

Pack(neg, m, e) ==
    IF m = <<>> THEN Zero
    ELSE IF e > EMax THEN Inf(neg)
    ELSE [cls |-> "fin", neg |-> neg, m |-> m, e |-> e]

\* rounding up may carry into a 54th bit
Carry(neg, m, e) ==
    IF BLen(m) > Prec THEN Pack(neg, BShr(m, 1), e + 1) ELSE Pack(neg, m, e)

RoundAt(neg, M, E, e, sticky) ==
    Carry(neg, IF e <= E THEN BShl(M, E - e) ELSE RoundShift(M, e - E, sticky), e)

Round(neg, M, E, sticky) ==
    IF M = <<>> THEN Zero ELSE RoundAt(neg, M, E, LastPlace(E, BLen(M)), sticky)

\* int -> float
F(n) == Round(n < 0, Big(IF n < 0 THEN -n ELSE n), 0, FALSE)

\* 2^k as a float, EMin <= k
Pow2(k) == Round(FALSE, <<1>>, k, FALSE)

FNeg(x) == IF x.cls = "nan" \/ IsZero(x) THEN x ELSE [x EXCEPT !.neg = ~x.neg]

FAbs(x) == [x EXCEPT !.neg = FALSE]

FMul(x, y) ==
    IF x.cls = "nan" \/ y.cls = "nan" THEN NaN
    ELSE IF x.cls = "inf" \/ y.cls = "inf"
         THEN (IF IsZero(x) \/ IsZero(y) THEN NaN ELSE Inf(x.neg # y.neg))
    ELSE Round(x.neg # y.neg, BMul(x.m, y.m), x.e + y.e, FALSE)

\* an operand more than AlignMax binary places below the other is less than
\* 1/1000 of the other's last place and leaves the rounded sum unchanged
AlignMax == 64

\* x + y for the numbers a * 2^E of x and b * 2^E of y
AddAligned(x, y, a, b, E) ==
    Round(IF x.neg = y.neg \/ ~BLess(a, b) THEN x.neg ELSE y.neg,
          IF x.neg = y.neg THEN BAdd(a, b)
          ELSE IF BLess(a, b) THEN BSub(b, a) ELSE BSub(a, b),
          E, FALSE)

AddAt(x, y, E) == AddAligned(x, y, BShl(x.m, x.e - E), BShl(y.m, y.e - E), E)

FAdd(x, y) ==
    IF x.cls = "nan" \/ y.cls = "nan" THEN NaN
    ELSE IF x.cls = "inf"
         THEN (IF y.cls = "inf" /\ x.neg # y.neg THEN NaN ELSE x)
    ELSE IF y.cls = "inf" THEN y
    ELSE IF IsZero(x) THEN y
    ELSE IF IsZero(y) THEN x
    ELSE IF x.e > y.e + AlignMax THEN x
    ELSE IF y.e > x.e + AlignMax THEN y
    ELSE AddAt(x, y, IF x.e < y.e THEN x.e ELSE y.e)

FSub(x, y) == FAdd(x, FNeg(y))

\* m * 2^e with the factors of two moved out of m
RECURSIVE OddPart(_, _)
OddPart(m, e) ==
    IF m[1] = 0 THEN OddPart(Tail(m), e + LimbBits)
    ELSE IF m[1] % 2 = 0 THEN OddPart(BShr(m, 1), e + 1)
    ELSE [m |-> m, e |-> e]

\* extra quotient bits of a division: more than Prec + LimbBits + 1
DivBits == 70

DivQuotient(neg, Q, E) == Round(neg, Q.q, E, Q.r # 0)

\* x / (+-d.m * 2^d.e) for a one-limb d.m
DivOdd(x, yneg, d) ==
    DivQuotient(x.neg # yneg, BDivSmall(BShl(x.m, DivBits), d.m[1]),
                x.e - d.e - DivBits)

\* x / y for a finite divisor y # 0 whose odd part fits one limb (every
\* divisor of the source does: 120, 240, 1.5, and the powers of ten below
\* 10^7 in decimal literals)
FDiv(x, y) ==
    IF x.cls = "nan" THEN NaN
    ELSE IF x.cls = "inf" THEN Inf(x.neg # y.neg)
    ELSE IF IsZero(x) THEN Zero
    ELSE DivOdd(x, y.neg, OddPart(y.m, y.e))

\* the float a decimal literal n/d denotes (d a power of ten)
Dec(n, d) == FDiv(F(n), F(d))

MagLess(x, y) ==
    IF x.cls = "inf" THEN FALSE
    ELSE IF y.cls = "inf" THEN TRUE
    ELSE IF x.e # y.e THEN x.e < y.e
    ELSE BLess(x.m, y.m)

\* x < y
FLess(x, y) ==
    IF x.cls = "nan" \/ y.cls = "nan" THEN FALSE
    ELSE IF x.neg /\ ~y.neg THEN TRUE
    ELSE IF ~x.neg /\ y.neg THEN FALSE
    ELSE IF x.neg THEN MagLess(y, x)
    ELSE MagLess(x, y)

FEq(x, y) == x.cls # "nan" /\ x = y

FLe(x, y) == FLess(x, y) \/ FEq(x, y)

\* Python's max(a, b) and min(a, b): the second only when strictly better
PyMax(a, b) == IF FLess(a, b) THEN b ELSE a

PyMin(a, b) == IF FLess(b, a) THEN b ELSE a

\* Python's round(x) of a finite float: nearest integer, ties to even
PyRound(x) ==
    (IF x.neg THEN -1 ELSE 1)
    * BigToInt(IF x.e >= 0 THEN BShl(x.m, x.e) ELSE RoundShift(x.m, -x.e, FALSE))

(***************************************************************************)
(* The literals of compute_energy and of the request bodies.               *)
(***************************************************************************)
f0 == Zero
f1 == F(1)
f30 == F(30)
f100 == F(100)
f120 == F(120)
f180 == F(180)
f240 == F(240)
f0_5 == Dec(5, 10)
f0_6 == Dec(6, 10)
f0_9 == Dec(9, 10)
f0_18 == Dec(18, 100)
f1_5 == Dec(15, 10)

(***************************************************************************)
(* class EnergyInput: a field absent from the body takes its default; the  *)
(* Field constraints are enforced before the handler is called.            *)
(***************************************************************************)
Missing == [cls |-> "missing", neg |-> FALSE, m |-> <<>>, e |-> 0]

Given(v, default) == IF v = Missing THEN default ELSE v

\* the EnergyInput object made from a request body
EnergyInputOf(body) ==
    [tilt |-> Given(body.tilt, F(25)),
     azimuth |-> Given(body.azimuth, f180),
     irradiance |-> Given(body.irradiance, Dec(48, 10)),
     area |-> Given(body.area, F(18))]

\* EnergyInput with the ge=0 of area left out
EnergyInput_area_unchecked(inp) ==
    /\ FLe(f0, inp.tilt) /\ FLe(inp.tilt, F(90))
    /\ FLe(f0, inp.azimuth) /\ FLe(inp.azimuth, F(360))
    /\ FLe(f0, inp.irradiance)

\* EnergyInput with the le=90 of tilt left out
EnergyInput_tilt_unbounded(inp) ==
    /\ FLe(f0, inp.tilt)
    /\ FLe(f0, inp.azimuth) /\ FLe(inp.azimuth, F(360))
    /\ FLe(f0, inp.irradiance)
    /\ FLe(f0, inp.area)

EnergyInput(inp) ==
    /\ FLe(f0, inp.tilt) /\ FLe(inp.tilt, F(90))
    /\ FLe(f0, inp.azimuth) /\ FLe(inp.azimuth, F(360))
    /\ FLe(f0, inp.irradiance)
    /\ FLe(f0, inp.area)

(***************************************************************************)
(* compute_energy, line by line.                                           *)
(***************************************************************************)
\* tiltFactor growing with the distance from 30 (+ for -)
tiltFactor_plus(inp) == FAdd(f1, FDiv(FAbs(FSub(inp.tilt, f30)), f120))

tiltFactor(inp) == FSub(f1, FDiv(FAbs(FSub(inp.tilt, f30)), f120))

\* facingSouthFactor without the abs
facingSouthFactor_no_abs(inp) ==
    FSub(f1, FDiv(PyMin(FSub(inp.azimuth, f180), f180), f240))

facingSouthFactor(inp) ==
    FSub(f1, FDiv(PyMin(FAbs(FSub(inp.azimuth, f180)), f180), f240))

\* the sum that k floors at 0.5
weighted(tf, fs) == FAdd(FMul(tf, f0_9), FMul(fs, f0_6))

\* k with min for max
k_min(tf, fs) == PyMin(f0_5, weighted(tf, fs))

k(tf, fs) == PyMax(f0_5, weighted(tf, fs))

\* dailyKWh with an efficiency of 0.2
dailyKWh_20_percent(inp, kv) ==
    FMul(FMul(FMul(inp.irradiance, inp.area), Dec(2, 10)), kv)

dailyKWh(inp, kv) == FMul(FMul(FMul(inp.irradiance, inp.area), f0_18), kv)

\* monthlyKWh with a month of 31 days
monthlyKWh_31_days(d) == FMul(d, F(31))

monthlyKWh(d) == FMul(d, f30)

\* score as a plain percentage of k, neither rescaled nor clamped
score_percent(kv) == PyRound(FMul(kv, f100))

score(kv) == PyRound(PyMin(f100, FMul(FDiv(kv, f1_5), f100)))

\* compute_energy with the score taken from dailyKWh instead of k
compute_energy_score_of_daily(inp) ==
    LET tf == tiltFactor(inp)
        fs == facingSouthFactor(inp)
        kv == k(tf, fs)
        d  == dailyKWh(inp, kv)
        m  == monthlyKWh(d)
    IN  [locals |-> [fn |-> "compute_energy",
                     tiltFactor |-> tf, facingSouthFactor |-> fs, k |-> kv,
                     dailyKWh |-> d, monthlyKWh |-> m],
         out |-> [daily |-> PyMax(f0, d), monthly |-> PyMax(f0, m),
                  score |-> score(d)]]

\* the EnergyOutput returned (out) and the locals it was made from
compute_energy(inp) ==
    LET tf == tiltFactor(inp)
        fs == facingSouthFactor(inp)
        kv == k(tf, fs)
        d  == dailyKWh(inp, kv)
        m  == monthlyKWh(d)
    IN  [locals |-> [fn |-> "compute_energy",
                     tiltFactor |-> tf, facingSouthFactor |-> fs, k |-> kv,
                     dailyKWh |-> d, monthlyKWh |-> m],
         out |-> [daily |-> PyMax(f0, d), monthly |-> PyMax(f0, m),
                  score |-> score(kv)]]

(***************************************************************************)
(* Requests.  A JSON number reaches the handler as the float it denotes;   *)
(* 1e999 is read as inf, which satisfies ge=0.                             *)
(***************************************************************************)
MaxTiltStep == 3
MaxAzStep == 4
MaxDocs == 2

\* the smallest positive float, 5e-324
MinSub == Pow2(EMin)
\* 29.999999999999996, the float next below 30
Pred30 == FSub(f30, Pow2(-48))
\* 8.98846567431158e307
Huge == Pow2(1023)

Tilts == {F(30 * i) : i \in -1..MaxTiltStep} \cup {Pred30, f100}
Azimuths == {F(90 * j) : j \in -1..MaxAzStep}
Irradiances == {F(-1), f0, MinSub, Dec(48, 10), Huge, Inf(FALSE)}
Areas == {F(-1), f0, f1, F(4), F(18)}

\* the body {}
EmptyBody ==
    [tilt |-> Missing, azimuth |-> Missing, irradiance |-> Missing, area |-> Missing]

EnergyBodies ==
    [tilt : Tilts, azimuth : Azimuths, irradiance : Irradiances, area : Areas]
    \cup {EmptyBody}

Emails == {"ada@example.com", "not-an-email"}

\* class SubscribeInput: EmailStr
SubscribeInput(body) == body.email = "ada@example.com"

EstimatePath == "/api/energy/estimate"
SubscribePath == "/api/subscribe"

Requests ==
    {[method |-> "GET", path |-> p] : p \in {"/", "/api/hello"}}
    \cup {[method |-> "POST", path |-> EstimatePath, body |-> b] : b \in EnergyBodies}
    \cup {[method |-> "POST", path |-> SubscribePath, body |-> [email |-> e]] : e \in Emails}

NoRequest == [method |-> "none", path |-> "none"]
NoResponse == [status |-> 0]
NoFrame == [fn |-> "none"]

\* request:  the request being served
\* response: the response to it, once its handler has run
\* frame:    the locals of the handler's last call, kept for inspection
\* docs:     the documents the document store holds
VARIABLES request, response, frame, docs

vars == <<request, response, frame, docs>>

Init ==
    /\ request = NoRequest
    /\ response = NoResponse
    /\ frame = NoFrame
    /\ docs = <<>>

\* a client sends a request
Post(r) ==
    /\ request.path = "none"
    /\ request' = r
    /\ UNCHANGED <<response, frame, docs>>

Pending(method, path) ==
    /\ request.method = method
    /\ request.path = path
    /\ response.status = 0

read_root ==
    /\ Pending("GET", "/")
    /\ response' = [status |-> 200, body |-> [message |-> "Hello from FastAPI Backend!"]]
    /\ UNCHANGED <<request, frame, docs>>

hello ==
    /\ Pending("GET", "/api/hello")
    /\ response' = [status |-> 200, body |-> [message |-> "Hello from the backend API!"]]
    /\ UNCHANGED <<request, frame, docs>>

\* POST /api/energy/estimate: the body is validated as an EnergyInput, and
\* only a valid one reaches the handler
energy_estimate ==
    /\ Pending("POST", EstimatePath)
    /\ LET payload == EnergyInputOf(request.body)
       IN  IF EnergyInput(payload)
           THEN LET call == compute_energy(payload)
                IN  /\ frame' = call.locals
                    /\ response' = [status |-> 200, body |-> call.out]
           ELSE /\ frame' = NoFrame
                /\ response' = [status |-> 422]
    /\ UNCHANGED <<request, docs>>

\* database.create_document: stores the document and returns its id
create_document(collection, data) ==
    [id |-> Len(docs) + 1, collection |-> collection, data |-> data]

\* subscribe reporting stored = True from its except branch too
subscribe_body_always_stored(payload, imported, created) ==
    IF imported /\ created
    THEN [stored |-> Append(docs, create_document("subscriber", [email |-> payload.email])),
          locals |-> [fn |-> "subscribe", imported |-> TRUE, created |-> TRUE,
                      doc_id |-> Len(docs) + 1],
          out |-> [status |-> "ok", stored |-> TRUE, id |-> Len(docs) + 1]]
    ELSE [stored |-> docs,
          locals |-> [fn |-> "subscribe", imported |-> imported, created |-> FALSE,
                      doc_id |-> 0],
          out |-> [status |-> "ok", stored |-> TRUE]]

\* the handler of POST /api/subscribe, for each way its try block can end
subscribe_body(payload, imported, created) ==
    IF imported /\ created
    THEN LET doc == create_document("subscriber", [email |-> payload.email])
         IN  [stored |-> Append(docs, doc),
              locals |-> [fn |-> "subscribe", imported |-> TRUE, created |-> TRUE,
                          doc_id |-> doc.id],
              out |-> [status |-> "ok", stored |-> TRUE, id |-> doc.id]]
    ELSE [stored |-> docs,
          locals |-> [fn |-> "subscribe", imported |-> imported, created |-> FALSE,
                      doc_id |-> 0],
          out |-> [status |-> "ok", stored |-> FALSE]]

subscribe ==
    /\ Pending("POST", SubscribePath)
    /\ IF SubscribeInput(request.body)
       THEN \E imported \in BOOLEAN, created \in BOOLEAN :
               /\ created => imported /\ Len(docs) < MaxDocs
               /\ LET call == subscribe_body(request.body, imported, created)
                  IN  /\ docs' = call.stored
                      /\ frame' = call.locals
                      /\ response' = [status |-> 200, body |-> call.out]
       ELSE /\ frame' = NoFrame
            /\ response' = [status |-> 422]
            /\ UNCHANGED docs
    /\ UNCHANGED request

\* the response is sent; nothing of the request is kept
Reply ==
    /\ response.status # 0
    /\ request' = NoRequest
    /\ response' = NoResponse
    /\ frame' = NoFrame
    /\ UNCHANGED docs

Next ==
    \/ \E r \in Requests : Post(r)
    \/ read_root
    \/ hello
    \/ energy_estimate
    \/ subscribe
    \/ Reply

Spec == Init /\ [][Next]_vars

(***************************************************************************)
(* Properties.                                                             *)
(***************************************************************************)
\* the EnergyInput of the request being served (an estimate request)
Payload == EnergyInputOf(request.body)

\* an energy estimate has been computed and answered
EnergyServed == request.path = EstimatePath /\ response.status = 200

\* the distance of a tilt from 30 and of an azimuth from 180, as the source
\* computes them
TiltOff(t) == FAbs(FSub(t, F(30)))
AzimuthOff(a) == FAbs(FSub(a, F(180)))

\* C1: every estimate served has daily >= 0, monthly >= 0 and monthly equal
\* to daily * 30 exactly.
C1_NonNegativeAndThirtyfold ==
    EnergyServed =>
        /\ FLe(F(0), response.body.daily)
        /\ FLe(F(0), response.body.monthly)
        /\ FEq(response.body.monthly, FMul(response.body.daily, F(30)))

C1_Witness ==
    /\ EnergyServed
    /\ FLess(F(0), response.body.daily)
    /\ IsFinite(response.body.monthly)
    /\ Payload.tilt = F(60)

\* C2: the score of every estimate served is an integer from 0 to 100.
C2_ScoreRange == EnergyServed => response.body.score \in 0..100

C2_Witness ==
    /\ EnergyServed
    /\ response.body.score = 100
    /\ Payload.irradiance = Dec(48, 10)

\* C3 as claimed: k >= 0.5, and daily and monthly are strictly positive
\* whenever irradiance * area > 0.
C3_PositiveWhenProductPositive ==
    EnergyServed =>
        /\ FLe(Dec(5, 10), frame.k)
        /\ FLess(F(0), FMul(Payload.irradiance, Payload.area))
           => /\ FLess(F(0), response.body.daily)
              /\ FLess(F(0), response.body.monthly)

\* C3 as amended: k >= 0.5, and daily and monthly are strictly positive
\* whenever the float irradiance * area * 0.18 is > 0 (a smaller product
\* underflows to 0 before k is applied).
C3_PositiveWhenScaledProductPositive ==
    EnergyServed =>
        /\ FLe(Dec(5, 10), frame.k)
        /\ FLess(F(0), FMul(FMul(Payload.irradiance, Payload.area),
                            Dec(18, 100)))
           => /\ FLess(F(0), response.body.daily)
              /\ FLess(F(0), response.body.monthly)

\* the scaled product is the smallest positive float, and daily still is > 0
C3_Witness ==
    /\ EnergyServed
    /\ FMul(FMul(Payload.irradiance, Payload.area), Dec(18, 100))
       = Pow2(-1074)
    /\ FLess(F(0), response.body.daily)

\* tilt t2 is valid, on the same side of 30 as t1 and strictly closer to 30
CloserTilt(t1, t2) ==
    /\ FLe(F(0), t2) /\ FLe(t2, F(90))
    /\ \/ FLe(t1, F(30)) /\ FLe(t2, F(30))
       \/ FLe(F(30), t1) /\ FLe(F(30), t2)
    /\ FLess(TiltOff(t2), TiltOff(t1))

\* the served request with another tilt
WithTilt(t) == compute_energy([Payload EXCEPT !.tilt = t])

\* C4 as claimed: with the other inputs fixed, a tilt strictly closer to 30
\* on the same side gives a strictly larger k and a strictly larger daily.
C4_CloserTiltStrictlyMore ==
    EnergyServed =>
        \A t2 \in Tilts :
            CloserTilt(Payload.tilt, t2)
            => /\ FLess(frame.k, WithTilt(t2).locals.k)
               /\ FLess(response.body.daily, WithTilt(t2).out.daily)

\* C4 as amended: such a tilt never gives a smaller k or daily; k is
\* strictly larger when the tilt is at least one degree closer to 30, and
\* daily is strictly larger when moreover irradiance * area * 0.18 is at
\* least 2^-1022 (a normal float) and the daily of the farther tilt is finite.
C4_CloserTiltNeverLess ==
    EnergyServed =>
        \A t2 \in Tilts :
            CloserTilt(Payload.tilt, t2)
            => /\ FLe(frame.k, WithTilt(t2).locals.k)
               /\ FLe(response.body.daily, WithTilt(t2).out.daily)
               /\ FLe(F(1), FSub(TiltOff(Payload.tilt), TiltOff(t2)))
                  => /\ FLess(frame.k, WithTilt(t2).locals.k)
                     /\ ( /\ FLe(Pow2(-1022),
                                 FMul(FMul(Payload.irradiance, Payload.area),
                                      Dec(18, 100)))
                          /\ IsFinite(response.body.daily) )
                        => FLess(response.body.daily, WithTilt(t2).out.daily)

\* tilt 90 was served, and tilt 60 gives strictly more
C4_Witness ==
    /\ EnergyServed
    /\ Payload.tilt = F(90)
    /\ Payload.irradiance = Dec(48, 10)
    /\ FLess(response.body.daily, WithTilt(F(60)).out.daily)

\* some field of an estimate request lies outside its declared domain
OutOfDomain(b) ==
    \/ FLess(b.tilt, F(0)) \/ FLess(F(90), b.tilt)
    \/ FLess(b.azimuth, F(0)) \/ FLess(F(360), b.azimuth)
    \/ FLess(b.irradiance, F(0))
    \/ FLess(b.area, F(0))

\* C5: an estimate request with a field outside its domain is answered with
\* a client error; compute_energy is not run on it and no EnergyOutput is
\* produced.
C5_OutOfDomainRejected ==
    (request.path = EstimatePath /\ OutOfDomain(Payload)) =>
        /\ frame = NoFrame
        /\ response.status \in {0, 422}
        /\ "body" \notin DOMAIN response

C5_Witness ==
    /\ request.path = EstimatePath
    /\ Payload.tilt = F(100)
    /\ response.status = 422

\* 23.328 and 699.84 as floats, and the floats next below them
f23_328 == Dec(23328, 1000)
f699_84 == Dec(69984, 100)
f23_328_below == FSub(f23_328, Pow2(-48))
f699_84_below == FSub(f699_84, Pow2(-43))

AtPeak == Payload.tilt = F(30) /\ Payload.azimuth = F(180)
AtPeakExample ==
    AtPeak /\ Payload.irradiance = Dec(48, 10) /\ Payload.area = F(18)

\* C6 as claimed: k <= 1.5 always; at tilt 30, azimuth 180, k = 1.5 and
\* score = 100, and with irradiance 4.8 and area 18, daily = 23.328 and
\* monthly = 699.84.
C6_PeakValues ==
    EnergyServed =>
        /\ FLe(frame.k, Dec(15, 10))
        /\ AtPeak => frame.k = Dec(15, 10) /\ response.body.score = 100
        /\ AtPeakExample => /\ response.body.daily = f23_328
                            /\ response.body.monthly = f699_84

\* C6 as amended: the same, with daily = 23.327999999999996 and
\* monthly = 699.8399999999999, the floats next below 23.328 and 699.84.
C6_PeakValuesAsFloats ==
    EnergyServed =>
        /\ FLe(frame.k, Dec(15, 10))
        /\ AtPeak => frame.k = Dec(15, 10) /\ response.body.score = 100
        /\ AtPeakExample => /\ response.body.daily = f23_328_below
                            /\ response.body.monthly = f699_84_below

C6_Witness == EnergyServed /\ AtPeakExample /\ frame.k = Dec(15, 10)

\* the served request with another azimuth
WithAzimuth(a) == compute_energy([Payload EXCEPT !.azimuth = a])

\* C7: two valid azimuths equally far from 180 give the same
\* facingSouthFactor and, the other inputs being equal, the same daily,
\* monthly and score.
C7_AzimuthSymmetry ==
    EnergyServed =>
        \A a2 \in Azimuths :
            ( /\ FLe(F(0), a2) /\ FLe(a2, F(360))
              /\ FEq(AzimuthOff(a2), AzimuthOff(Payload.azimuth)) )
            => /\ WithAzimuth(a2).locals.facingSouthFactor = frame.facingSouthFactor
               /\ WithAzimuth(a2).out = response.body

\* azimuth 270 was served, and 90 is a different azimuth equally far from 180
C7_Witness ==
    /\ EnergyServed
    /\ Payload.azimuth = F(270)
    /\ F(90) \in Azimuths
    /\ FEq(AzimuthOff(F(90)), AzimuthOff(Payload.azimuth))
    /\ FLess(F(0), response.body.daily)

\* the served request with the default irradiance and area
WithDefaultArray ==
    compute_energy([Payload EXCEPT !.irradiance = Dec(48, 10), !.area = F(18)])

\* C8: with irradiance = 0 or area = 0 daily and monthly are 0; the score is
\* that of the same tilt and azimuth with any other irradiance and area
\* (here: with the defaults 4.8 and 18), and is 55 for tilt 0, azimuth 0.
C8_ZeroArrayAndScore ==
    EnergyServed =>
        /\ ( \/ IsZero(Payload.irradiance)
             \/ IsZero(Payload.area)
             \/ IsZero(FMul(Payload.irradiance, Payload.area)) )
           => response.body.daily = F(0) /\ response.body.monthly = F(0)
        /\ response.body.score = WithDefaultArray.out.score
        /\ (Payload.tilt = F(0) /\ Payload.azimuth = F(0))
           => response.body.score = 55

C8_Witness ==
    /\ EnergyServed
    /\ Payload.tilt = F(0) /\ Payload.azimuth = F(0)
    /\ IsZero(Payload.irradiance) /\ IsZero(Payload.area)
    /\ response.body.score = 55
    /\ response.body.daily = F(0)

\* a subscribe request with a valid e-mail address has been answered
SubscribeServed ==
    /\ request.path = SubscribePath
    /\ request.body.email = "ada@example.com"
    /\ response.status # 0

\* C9: a subscribe request with a valid e-mail is always answered with
\* status "ok": with stored = true and create_document's id when the import
\* and create_document succeeded, with stored = false and no id when either
\* raised; stored = true only when the document was stored.
C9_SubscribeAlwaysOk ==
    SubscribeServed =>
        /\ response.status = 200
        /\ response.body.status = "ok"
        /\ (frame.imported /\ frame.created)
           => response.body = [status |-> "ok", stored |-> TRUE, id |-> frame.doc_id]
        /\ ~(frame.imported /\ frame.created)
           => response.body = [status |-> "ok", stored |-> FALSE]
        /\ response.body.stored
           => /\ docs # <<>>
              /\ docs[Len(docs)] = [id |-> response.body.id, collection |-> "subscriber",
                                    data |-> [email |-> request.body.email]]

\* the import succeeded, create_document raised, and the answer is not stored
C9_Witness ==
    /\ SubscribeServed
    /\ frame.imported /\ ~frame.created
    /\ response.body = [status |-> "ok", stored |-> FALSE]
    /\ docs # <<>>

\* the sum that k floors, from the factors of the served request
WeightedSum ==
    FAdd(FMul(frame.tiltFactor, Dec(9, 10)), FMul(frame.facingSouthFactor, Dec(6, 10)))

ClampsIdle ==
    /\ FLe(Dec(6, 10), WeightedSum)
    /\ FLess(Dec(5, 10), WeightedSum)
    /\ frame.k = WeightedSum
    /\ PyMin(AzimuthOff(Payload.azimuth), F(180)) = AzimuthOff(Payload.azimuth)
    /\ response.body.score >= 40

\* C10 as claimed: on valid input the weighted sum is >= 0.6 > 0.5, k is
\* the sum, min(|azimuth - 180|, 180) is |azimuth - 180|, the final
\* max(0, ...) returns dailyKWh and monthlyKWh unchanged, and score >= 40.
C10_ClampsNeverBind ==
    EnergyServed =>
        /\ ClampsIdle
        /\ response.body.daily = frame.dailyKWh
        /\ response.body.monthly = frame.monthlyKWh

\* C10 as amended: the same, except that the final max(0, ...) turns a NaN
\* dailyKWh and monthlyKWh (irradiance * area is NaN: one is infinite, the
\* other 0) into 0.
C10_ClampsBindOnNaNOnly ==
    EnergyServed =>
        /\ ClampsIdle
        /\ IF FMul(Payload.irradiance, Payload.area) = NaN
           THEN /\ frame.dailyKWh = NaN /\ frame.monthlyKWh = NaN
                /\ response.body.daily = F(0) /\ response.body.monthly = F(0)
           ELSE /\ response.body.daily = frame.dailyKWh
                /\ response.body.monthly = frame.monthlyKWh

\* the weakest orientation was served: the sum is 0.6 and the score 40
C10_Witness ==
    /\ EnergyServed
    /\ Payload.tilt = F(90) /\ Payload.azimuth = F(0)
    /\ frame.k = Dec(6, 10)
    /\ response.body.score = 40
    /\ response.body.daily = frame.dailyKWh
====
